---------------------------- MODULE Spec2Model ----------------------------
(***************************************************************************)
(* Model of the TVM actor mapping helper                                   *)
(* (.agent/skills/tvm-generation/scripts/map_actors.py): the two lookup    *)
(* tables, normalize_name, map_actor (with difflib.get_close_matches as    *)
(* map_actor calls it) and the command-line entry point main.              *)
(*                                                                         *)
(* A Python str is a sequence of code points (65 is "A"); a Python dict is *)
(* the sequence of its <<key, value>> items in insertion order; a dict     *)
(* that the program returns is a record whose DOMAIN is its set of keys.   *)
(* A str result of map_actor is the record [str |-> id]; a call that       *)
(* raises yields the record [raise |-> exception name].  Sequence          *)
(* positions inside the difflib operators are 0-based, as in the library.  *)
(***************************************************************************)
EXTENDS Integers, Sequences, FiniteSets

VARIABLES
    ACTOR_MAPPINGS,   \* module global dict: display name -> ATT&CK group id
    ALIASES,          \* module global dict: variant spelling -> display name
    argv,             \* sys.argv[1:], the actor names given on the command line
    pc,               \* position of main: "start", "loop", "done", "exit"
    idx,              \* position of the for loop in argv (1-based)
    result,           \* main's local: what the last map_actor call returned
    results,          \* main's local list of recorded results
    stdout,           \* what main has printed, one entry per print call
    status            \* the process exit status, None while running

vars == <<ACTOR_MAPPINGS, ALIASES, argv, pc, idx, result, results, stdout, status>>

None == "None"

(***************************************************************************)
(* The tables as authored.                                                 *)
(***************************************************************************)
ActorMappingsLiteral ==
    <<
      <<<<65, 80, 84, 49>>, "att&ck::G0006">>,   \* "APT1"
      <<<<65, 80, 84, 53>>, "att&ck::G1023">>,   \* "APT5"
      <<<<65, 80, 84, 49, 50>>, "att&ck::G0005">>,   \* "APT12"
      <<<<65, 80, 84, 49, 54>>, "att&ck::G0023">>,   \* "APT16"
      <<<<65, 80, 84, 49, 55>>, "att&ck::G0025">>,   \* "APT17"
      <<<<65, 80, 84, 49, 56>>, "att&ck::G0026">>,   \* "APT18"
      <<<<65, 80, 84, 49, 57>>, "att&ck::G0073">>,   \* "APT19"
      <<<<65, 80, 84, 50, 56>>, "att&ck::G0007">>,   \* "APT28"
      <<<<65, 80, 84, 50, 57>>, "att&ck::G0016">>,   \* "APT29"
      <<<<65, 80, 84, 51>>, "att&ck::G0022">>,   \* "APT3"
      <<<<65, 80, 84, 51, 48>>, "att&ck::G0013">>,   \* "APT30"
      <<<<65, 80, 84, 51, 50>>, "att&ck::G0050">>,   \* "APT32"
      <<<<65, 80, 84, 51, 51>>, "att&ck::G0064">>,   \* "APT33"
      <<<<65, 80, 84, 51, 52>>, "att&ck::G0049">>,   \* "APT34"
      <<<<65, 80, 84, 51, 53>>, "att&ck::G0059">>,   \* "APT35"
      <<<<65, 80, 84, 51, 54>>, "att&ck::G0134">>,   \* "APT36"
      <<<<65, 80, 84, 51, 55>>, "att&ck::G0067">>,   \* "APT37"
      <<<<65, 80, 84, 51, 56>>, "att&ck::G0082">>,   \* "APT38"
      <<<<65, 80, 84, 51, 57>>, "att&ck::G0087">>,   \* "APT39"
      <<<<65, 80, 84, 52, 48>>, "att&ck::G0065">>,   \* "APT40"
      <<<<65, 80, 84, 52, 49>>, "att&ck::G0096">>,   \* "APT41"
      <<<<65, 80, 84, 52, 50>>, "att&ck::G1044">>,   \* "APT42"
      <<<<65, 80, 84, 52, 51>>, "att&ck::G0094">>,   \* "APT43"
      <<<<84, 82, 65, 78, 83, 80, 65, 82, 69, 78, 84, 32, 84, 82, 73, 66, 69>>, "att&ck::G0134">>,   \* "TRANSPARENT TRIBE"
      <<<<77, 89, 84, 72, 73, 67, 32, 76, 69, 79, 80, 65, 82, 68>>, "att&ck::G0134">>,   \* "MYTHIC LEOPARD"
      <<<<67, 79, 80, 80, 69, 82, 32, 70, 73, 69, 76, 68, 83, 84, 79, 78, 69>>, "att&ck::G0134">>,   \* "COPPER FIELDSTONE"
      <<<<83, 73, 68, 69, 67, 79, 80, 89>>, "att&ck::G1008">>,   \* "SIDECOPY"
      <<<<76, 65, 90, 65, 82, 85, 83, 32, 71, 82, 79, 85, 80>>, "att&ck::G0032">>,   \* "LAZARUS GROUP"
      <<<<76, 65, 90, 65, 82, 85, 83>>, "att&ck::G0032">>,   \* "LAZARUS"
      <<<<75, 73, 77, 83, 85, 75, 89>>, "att&ck::G0094">>,   \* "KIMSUKY"
      <<<<86, 79, 76, 84, 32, 84, 89, 80, 72, 79, 79, 78>>, "att&ck::G1017">>,   \* "VOLT TYPHOON"
      <<<<66, 82, 79, 78, 90, 69, 32, 83, 73, 76, 72, 79, 85, 69, 84, 84, 69>>, "att&ck::G1017">>,   \* "BRONZE SILHOUETTE"
      <<<<77, 85, 83, 84, 65, 78, 71, 32, 80, 65, 78, 68, 65>>, "att&ck::G0129">>,   \* "MUSTANG PANDA"
      <<<<66, 82, 79, 78, 90, 69, 32, 80, 82, 69, 83, 73, 68, 69, 78, 84>>, "att&ck::G0129">>,   \* "BRONZE PRESIDENT"
      <<<<83, 65, 78, 68, 87, 79, 82, 77>>, "att&ck::G0034">>,   \* "SANDWORM"
      <<<<70, 65, 78, 67, 89, 32, 66, 69, 65, 82>>, "att&ck::G0007">>,   \* "FANCY BEAR"
      <<<<67, 79, 90, 89, 32, 66, 69, 65, 82>>, "att&ck::G0016">>,   \* "COZY BEAR"
      <<<<84, 85, 82, 76, 65>>, "att&ck::G0010">>,   \* "TURLA"
      <<<<68, 82, 65, 71, 79, 78, 70, 76, 89>>, "att&ck::G0035">>,   \* "DRAGONFLY"
      <<<<69, 78, 69, 82, 71, 69, 84, 73, 67, 32, 66, 69, 65, 82>>, "att&ck::G0035">>,   \* "ENERGETIC BEAR"
      <<<<69, 81, 85, 65, 84, 73, 79, 78, 32, 71, 82, 79, 85, 80>>, "att&ck::G0020">>,   \* "EQUATION GROUP"
      <<<<67, 65, 82, 66, 65, 78, 65, 75>>, "att&ck::G0008">>,   \* "CARBANAK"
      <<<<70, 73, 78, 55>>, "att&ck::G0046">>,   \* "FIN7"
      <<<<70, 73, 78, 56>>, "att&ck::G0061">>,   \* "FIN8"
      <<<<70, 73, 78, 49, 48>>, "att&ck::G0051">>,   \* "FIN10"
      <<<<70, 73, 78, 49, 51>>, "att&ck::G1016">>,   \* "FIN13"
      <<<<76, 69, 86, 73, 65, 84, 72, 65, 78>>, "att&ck::G0065">>,   \* "LEVIATHAN"
      <<<<79, 73, 76, 82, 73, 71>>, "att&ck::G0049">>,   \* "OILRIG"
      <<<<77, 65, 71, 73, 67, 32, 72, 79, 85, 78, 68>>, "att&ck::G0059">>,   \* "MAGIC HOUND"
      <<<<67, 72, 65, 82, 77, 73, 78, 71, 32, 75, 73, 84, 84, 69, 78>>, "att&ck::G0059">>,   \* "CHARMING KITTEN"
      <<<<71, 65, 76, 76, 73, 85, 77>>, "att&ck::G0093">>,   \* "GALLIUM"
      <<<<71, 82, 65, 78, 73, 84, 69, 32, 84, 89, 80, 72, 79, 79, 78>>, "att&ck::G0093">>,   \* "GRANITE TYPHOON"
      <<<<72, 65, 70, 78, 73, 85, 77>>, "att&ck::G0125">>,   \* "HAFNIUM"
      <<<<83, 73, 76, 75, 32, 84, 89, 80, 72, 79, 79, 78>>, "att&ck::G0125">>,   \* "SILK TYPHOON"
      <<<<77, 85, 68, 68, 89, 87, 65, 84, 69, 82>>, "att&ck::G0069">>,   \* "MUDDYWATER"
      <<<<77, 65, 78, 71, 79, 32, 83, 65, 78, 68, 83, 84, 79, 82, 77>>, "att&ck::G0069">>,   \* "MANGO SANDSTORM"
      <<<<78, 65, 73, 75, 79, 78>>, "att&ck::G0019">>,   \* "NAIKON"
      <<<<79, 67, 69, 65, 78, 32, 76, 79, 84, 85, 83>>, "att&ck::G0050">>,   \* "OCEAN LOTUS"
      <<<<79, 67, 69, 65, 78, 76, 79, 84, 85, 83>>, "att&ck::G0050">>,   \* "OCEANLOTUS"
      <<<<80, 65, 84, 67, 72, 87, 79, 82, 75>>, "att&ck::G0040">>,   \* "PATCHWORK"
      <<<<68, 82, 79, 80, 80, 73, 78, 71, 32, 69, 76, 69, 80, 72, 65, 78, 84>>, "att&ck::G0040">>,   \* "DROPPING ELEPHANT"
      <<<<82, 79, 67, 75, 69>>, "att&ck::G0106">>,   \* "ROCKE"
      <<<<83, 67, 65, 82, 76, 69, 84, 32, 77, 73, 77, 73, 67>>, "att&ck::G0029">>,   \* "SCARLET MIMIC"
      <<<<83, 84, 69, 65, 76, 84, 72, 32, 70, 65, 76, 67, 79, 78>>, "att&ck::G0038">>,   \* "STEALTH FALCON"
      <<<<84, 72, 82, 69, 65, 84, 32, 71, 82, 79, 85, 80, 45, 51, 51, 57, 48>>, "att&ck::G0027">>,   \* "THREAT GROUP-3390"
      <<<<84, 71, 45, 51, 51, 57, 48>>, "att&ck::G0027">>,   \* "TG-3390"
      <<<<84, 73, 67, 75>>, "att&ck::G0060">>,   \* "TICK"
      <<<<66, 82, 79, 78, 90, 69, 32, 66, 85, 84, 76, 69, 82>>, "att&ck::G0060">>,   \* "BRONZE BUTLER"
      <<<<87, 73, 90, 65, 82, 68, 32, 83, 80, 73, 68, 69, 82>>, "att&ck::G0102">>,   \* "WIZARD SPIDER"
      <<<<84, 69, 77, 80, 46, 77, 73, 88, 77, 65, 83, 84, 69, 82>>, "att&ck::G0102">>,   \* "TEMP.MIXMASTER"
      <<<<71, 82, 73, 77, 32, 83, 80, 73, 68, 69, 82>>, "att&ck::G0102">>,   \* "GRIM SPIDER"
      <<<<73, 78, 68, 82, 73, 75, 32, 83, 80, 73, 68, 69, 82>>, "att&ck::G0119">>,   \* "INDRIK SPIDER"
      <<<<69, 86, 73, 76, 32, 67, 79, 82, 80>>, "att&ck::G0119">>   \* "EVIL CORP"
    >>

AliasesLiteral ==
    <<
      <<<<65, 80, 84, 32, 51, 54>>,
        <<65, 80, 84, 51, 54>>>>,   \* "APT 36": "APT36"
      <<<<65, 80, 84, 45, 51, 54>>,
        <<65, 80, 84, 51, 54>>>>,   \* "APT-36": "APT36"
      <<<<83, 73, 68, 69, 67, 79, 80>>,
        <<83, 73, 68, 69, 67, 79, 80, 89>>>>,   \* "SIDECOP": "SIDECOPY"
      <<<<83, 73, 68, 69, 32, 67, 79, 80, 89>>,
        <<83, 73, 68, 69, 67, 79, 80, 89>>>>,   \* "SIDE COPY": "SIDECOPY"
      <<<<84, 82, 65, 78, 83, 80, 65, 82, 69, 78, 84, 45, 84, 82, 73, 66, 69>>,
        <<84, 82, 65, 78, 83, 80, 65, 82, 69, 78, 84, 32, 84, 82, 73, 66, 69>>>>   \* "TRANSPARENT-TRIBE": "TRANSPARENT TRIBE"
    >>

(***************************************************************************)
(* dict operations on a sequence of <<key, value>> items.                  *)
(***************************************************************************)
DictKeys(d) == [k \in 1..Len(d) |-> d[k][1]]

DictHas(d, key) == \E k \in 1..Len(d) : d[k][1] = key

\* d[key], for a key that is in d (every subscript in the program is guarded).
DictGet(d, key) == d[CHOOSE k \in 1..Len(d) : d[k][1] = key][2]

(***************************************************************************)
(* str operations.  The model's alphabet is ASCII.                         *)
(***************************************************************************)
SetMin(S) == CHOOSE x \in S : \A y \in S : x <= y

SetMax(S) == CHOOSE x \in S : \A y \in S : x >= y

\* str.upper(): a-z go to A-Z, every other ASCII character is kept.
upper(s) == [k \in 1..Len(s) |-> IF s[k] \in 97..122 THEN s[k] - 32 ELSE s[k]]

\* The ASCII characters str.isspace() holds of: \t \n \v \f \r, FS GS RS US, space.
IsSpace(c) == c \in (9..13) \cup (28..32)

\* str.strip(): drops the leading and the trailing run of whitespace.
strip(s) ==
    LET keep == {k \in 1..Len(s) : ~IsSpace(s[k])}
    IN  IF keep = {} THEN <<>> ELSE SubSeq(s, SetMin(keep), SetMax(keep))

\* s < t for two str: the first differing code point decides, a proper prefix is less.
StrLess(s, t) ==
    LET common == IF Len(s) < Len(t) THEN Len(s) ELSE Len(t)
        diff   == {k \in 1..common : s[k] # t[k]}
    IN  IF diff = {} THEN Len(s) < Len(t)
        ELSE s[SetMin(diff)] < t[SetMin(diff)]

(***************************************************************************)
(* normalize_name                                                          *)
(***************************************************************************)
\* normalize_name without the strip() call.
normalize_name_no_strip(name) ==
    LET n == upper(name)
    IN  IF DictHas(ALIASES, n) THEN DictGet(ALIASES, n) ELSE n

\* normalize_name without the ALIASES redirection.
normalize_name_no_alias(name) == strip(upper(name))

\* normalize_name that looks the redirected name up in ALIASES once more.
normalize_name_chained(name) ==
    LET n == strip(upper(name))
        m == IF DictHas(ALIASES, n) THEN DictGet(ALIASES, n) ELSE n
    IN  IF DictHas(ALIASES, m) THEN DictGet(ALIASES, m) ELSE m

normalize_name(name) ==
    LET n == strip(upper(name))
    IN  IF DictHas(ALIASES, n) THEN DictGet(ALIASES, n) ELSE n

(***************************************************************************)
(* difflib, as map_actor uses it: SequenceMatcher(isjunk=None) with        *)
(* a = a table key and b = the normalized query.  With no junk predicate   *)
(* and b shorter than 200 elements (the autojunk threshold) no element of  *)
(* b is junk or popular, so b2j indexes every position of b.               *)
(*                                                                         *)
(* A ratio is the pair <<p, q>> standing for the float p / q.  The floats  *)
(* the library compares are 2.0 * matches / length with length below 2^26  *)
(* and the literal 0.6: two such quotients are equal as floats exactly     *)
(* when they are equal as fractions (distinct fractions differ by far more *)
(* than a rounding error, and 6.0 / 10 is the float 0.6), and correctly    *)
(* rounded division keeps their order, so cross-multiplication decides     *)
(* ==, < and >= as the floats do.                                          *)
(***************************************************************************)
RatioEq(r, s) == r[1] * s[2] = s[1] * r[2]

RatioLess(r, s) == r[1] * s[2] < s[1] * r[2]

\* The cutoff test with > in place of >=.
RatioGE_strict(r, s) == r[1] * s[2] > s[1] * r[2]

RatioGE(r, s) == r[1] * s[2] >= s[1] * r[2]

\* _calculate_ratio with its guard on matches in place of length.
calculate_ratio_guard_matches(matches, length) ==
    IF matches # 0 THEN <<2 * matches, length>> ELSE <<1, 1>>

\* _calculate_ratio(matches, length): 2.0 * matches / length, and 1.0 when length is 0.
calculate_ratio(matches, length) ==
    IF length # 0 THEN <<2 * matches, length>> ELSE <<1, 1>>

\* SequenceMatcher.real_quick_ratio(): the bound from the two lengths alone.
real_quick_ratio(a, b) ==
    calculate_ratio(IF Len(a) < Len(b) THEN Len(a) ELSE Len(b), Len(a) + Len(b))

\* SequenceMatcher.quick_ratio(): every element of a, taken in order, counts as a
\* match while occurrences of it are still available in b (avail starts at its
\* count in b and drops by one at each occurrence in a).
quick_ratio(a, b) ==
    LET fullbcount(elt) == Cardinality({k \in 1..Len(b) : b[k] = elt})
        used(i)         == Cardinality({k \in 1..(i - 1) : a[k] = a[i]})
        matches         == Cardinality({i \in 1..Len(a) : fullbcount(a[i]) - used(i) > 0})
    IN  calculate_ratio(matches, Len(a) + Len(b))

\* The entry newj2len[j] of row i in find_longest_match: the length of the longest
\* common run of a[alo..i] and b[blo..j] that ends at a[i] and b[j] (0-based).
RECURSIVE j2len(_, _, _, _, _, _)
j2len(a, b, alo, blo, i, j) ==
    IF i < alo \/ j < blo THEN 0
    ELSE IF a[i + 1] # b[j + 1] THEN 0
    ELSE j2len(a, b, alo, blo, i - 1, j - 1) + 1

\* SequenceMatcher.find_longest_match(alo, ahi, blo, bhi): <<besti, bestj, bestsize>>.
\* Rows i ascend, within a row j ascends, and a run replaces the best one only when
\* strictly longer: the longest run wins, of those the one ending first in a, of
\* those the one ending first in b.  With no junk the extension loops add nothing.
find_longest_match(a, b, alo, ahi, blo, bhi) ==
    LET cells == {c \in (alo..(ahi - 1)) \X (blo..(bhi - 1)) : a[c[1] + 1] = b[c[2] + 1]}
        first(k, bestsize) ==
            LET i == SetMin({c[1] : c \in {d \in DOMAIN k : k[d] = bestsize}})
                j == SetMin({c[2] : c \in {d \in DOMAIN k : d[1] = i /\ k[d] = bestsize}})
            IN  <<i - bestsize + 1, j - bestsize + 1, bestsize>>
        best(k) == first(k, SetMax({k[c] : c \in DOMAIN k}))
    IN  IF cells = {} THEN <<alo, blo, 0>>
        ELSE best([c \in cells |-> j2len(a, b, alo, blo, c[1], c[2])])

\* SequenceMatcher.get_matching_blocks(), summed as ratio() sums it: the longest
\* match of the range, then the blocks to its left and to its right.
RECURSIVE matching_blocks_size(_, _, _, _, _, _)
matching_blocks_size(a, b, alo, ahi, blo, bhi) ==
    LET around(i, j, k) ==
            IF k = 0 THEN 0
            ELSE k
                 + (IF alo < i /\ blo < j
                    THEN matching_blocks_size(a, b, alo, i, blo, j) ELSE 0)
                 + (IF i + k < ahi /\ j + k < bhi
                    THEN matching_blocks_size(a, b, i + k, ahi, j + k, bhi) ELSE 0)
        block(x) == around(x[1], x[2], x[3])
    IN  block(find_longest_match(a, b, alo, ahi, blo, bhi))

\* SequenceMatcher.ratio(): 2.0 * M / T.
ratio(a, b) ==
    calculate_ratio(matching_blocks_size(a, b, 0, Len(a), 0, Len(b)), Len(a) + Len(b))

\* Tuples compared by score alone.
TupleLess_score_only(s, t) == RatioLess(s[1], t[1])

\* The order of the (score, x) tuples that nlargest compares.
TupleLess(s, t) ==
    \/ RatioLess(s[1], t[1])
    \/ RatioEq(s[1], t[1]) /\ StrLess(s[2], t[2])

\* The first n entries in iteration order, unsorted.
nlargest_unsorted(n, iterable) ==
    SubSeq(iterable, 1, IF n < Len(iterable) THEN n ELSE Len(iterable))

\* heapq.nlargest(n, iterable): sorted(iterable, reverse=True)[:n].
RECURSIVE nlargest(_, _)
nlargest(n, iterable) ==
    IF n = 0 \/ iterable = <<>> THEN <<>>
    ELSE LET top  == CHOOSE k \in 1..Len(iterable) :
                         \A m \in 1..Len(iterable) : ~TupleLess(iterable[k], iterable[m])
             rest == [m \in 1..(Len(iterable) - 1) |->
                         IF m < top THEN iterable[m] ELSE iterable[m + 1]]
         IN  <<iterable[top]>> \o nlargest(n - 1, rest)

\* get_close_matches that does not cut the sorted list down to n entries.
get_close_matches_no_limit(word, possibilities, n, cutoff) ==
    LET close(x) == /\ RatioGE(real_quick_ratio(x, word), cutoff)
                    /\ RatioGE(quick_ratio(x, word), cutoff)
                    /\ RatioGE(ratio(x, word), cutoff)
        scored(kept) == [k \in 1..Len(kept) |-> <<ratio(kept[k], word), kept[k]>>]
        names(best)  == [k \in 1..Len(best) |-> best[k][2]]
    IN  names(nlargest(Len(possibilities), scored(SelectSeq(possibilities, close))))

\* difflib.get_close_matches(word, possibilities, n, cutoff).
get_close_matches(word, possibilities, n, cutoff) ==
    LET close(x) == /\ RatioGE(real_quick_ratio(x, word), cutoff)
                    /\ RatioGE(quick_ratio(x, word), cutoff)
                    /\ RatioGE(ratio(x, word), cutoff)
        scored(kept) == [k \in 1..Len(kept) |-> <<ratio(kept[k], word), kept[k]>>]
        names(best)  == [k \in 1..Len(best) |-> best[k][2]]
    IN  names(nlargest(n, scored(SelectSeq(possibilities, close))))

(***************************************************************************)
(* map_actor                                                               *)
(***************************************************************************)
n_matches == 3

\* A cutoff of 0.5.
cutoff_0_5 == <<1, 2>>

cutoff_0_6 == <<3, 5>>

\* map_actor that reports the normalized name, not the raw input, as the query.
map_actor_query_normalized(actor_name) ==
    LET normalized == normalize_name(actor_name)
        all_names  == DictKeys(ACTOR_MAPPINGS)
        fuzzy(matches) ==
            IF \E k \in 1..Len(matches) : ~DictHas(ACTOR_MAPPINGS, matches[k])
            THEN [raise |-> "KeyError"]            \* ACTOR_MAPPINGS[match], line 129
            ELSE IF matches # <<>>
            THEN [query       |-> normalized,
                  exact_match |-> None,
                  suggestions |-> [k \in 1..Len(matches) |->
                                     [name |-> matches[k],
                                      id   |-> DictGet(ACTOR_MAPPINGS, matches[k])]]]
            ELSE [query       |-> normalized,
                  exact_match |-> None,
                  suggestions |-> <<>>,
                  error       |-> "No matching ATT&CK group found"]
    IN  IF DictHas(ACTOR_MAPPINGS, normalized)
        THEN [str |-> DictGet(ACTOR_MAPPINGS, normalized)]
        ELSE IF ~(n_matches > 0) \/ ~RatioGE(cutoff_0_6, <<0, 1>>)
                \/ ~RatioGE(<<1, 1>>, cutoff_0_6)
        THEN [raise |-> "ValueError"]              \* get_close_matches rejects n, cutoff
        ELSE fuzzy(get_close_matches(normalized, all_names, n_matches, cutoff_0_6))

map_actor(actor_name) ==
    LET normalized == normalize_name(actor_name)
        all_names  == DictKeys(ACTOR_MAPPINGS)
        fuzzy(matches) ==
            IF \E k \in 1..Len(matches) : ~DictHas(ACTOR_MAPPINGS, matches[k])
            THEN [raise |-> "KeyError"]            \* ACTOR_MAPPINGS[match], line 129
            ELSE IF matches # <<>>
            THEN [query       |-> actor_name,
                  exact_match |-> None,
                  suggestions |-> [k \in 1..Len(matches) |->
                                     [name |-> matches[k],
                                      id   |-> DictGet(ACTOR_MAPPINGS, matches[k])]]]
            ELSE [query       |-> actor_name,
                  exact_match |-> None,
                  suggestions |-> <<>>,
                  error       |-> "No matching ATT&CK group found"]
    IN  IF DictHas(ACTOR_MAPPINGS, normalized)
        THEN [str |-> DictGet(ACTOR_MAPPINGS, normalized)]
        ELSE IF ~(n_matches > 0) \/ ~RatioGE(cutoff_0_6, <<0, 1>>)
                \/ ~RatioGE(<<1, 1>>, cutoff_0_6)
        THEN [raise |-> "ValueError"]              \* get_close_matches rejects n, cutoff
        ELSE fuzzy(get_close_matches(normalized, all_names, n_matches, cutoff_0_6))

(***************************************************************************)
(* main                                                                    *)
(***************************************************************************)
\* Lines 143-146: no actor name was given; print the usage text and sys.exit(1).
Usage ==
    /\ pc = "start"
    /\ Len(argv) + 1 < 2
    /\ stdout' = stdout \o <<[line |-> "usage"], [line |-> "example"]>>
    /\ status' = 1
    /\ pc' = "exit"
    /\ UNCHANGED <<ACTOR_MAPPINGS, ALIASES, argv, idx, result, results>>

\* Line 148: results = [] and the for loop over sys.argv[1:] begins.
Begin ==
    /\ pc = "start"
    /\ ~(Len(argv) + 1 < 2)
    /\ results' = <<>>
    /\ idx' = 1
    /\ pc' = "loop"
    /\ UNCHANGED <<ACTOR_MAPPINGS, ALIASES, argv, result, stdout, status>>

\* What one pass of the loop body prints for a dict result (lines 158-164).
ReportLines(actor_name, r) ==
    <<[line |-> "header", actor |-> actor_name]>>
    \o (IF r.suggestions # <<>>
        THEN <<[line |-> "did_you_mean"]>>
             \o [k \in 1..Len(r.suggestions) |->
                   [line |-> "suggestion",
                    name |-> r.suggestions[k].name,
                    id   |-> r.suggestions[k].id]]
        ELSE <<[line |-> "error",
                text |-> IF "error" \in DOMAIN r THEN r.error ELSE "Unknown error"]>>)

\* Lines 152-166, after result = map_actor(actor_name) at line 150 gave r: the
\* report is printed and the result recorded; an exception leaves main instead.
LoopBody(actor_name, r) ==
    IF "raise" \in DOMAIN r
    THEN \* uncaught: traceback, exit status 1
         /\ pc' = "exit"
         /\ status' = 1
         /\ UNCHANGED <<idx, result, results, stdout>>
    ELSE /\ result' = r
         /\ IF DOMAIN r = {"str"}
            THEN /\ stdout' = Append(stdout, [line  |-> "match",
                                              actor |-> actor_name,
                                              id    |-> r.str])
                 /\ results' = Append(results, [actor |-> actor_name, id |-> r.str])
            ELSE /\ stdout' = stdout \o ReportLines(actor_name, r)
                 /\ results' = Append(results, r)
         /\ idx' = idx + 1
         /\ UNCHANGED <<pc, status>>

\* The loop body with a cache: a query that got suggestions is stored in ALIASES
\* as an alias of the best suggestion.
Resolve_caching ==
    /\ pc = "loop"
    /\ idx <= Len(argv)
    /\ \E r \in {map_actor(argv[idx])} :
          /\ LoopBody(argv[idx], r)
          /\ ALIASES' = IF "suggestions" \in DOMAIN r /\ r.suggestions # <<>>
                        THEN Append(ALIASES, <<normalize_name(argv[idx]),
                                               r.suggestions[1].name>>)
                        ELSE ALIASES
    /\ UNCHANGED <<ACTOR_MAPPINGS, argv>>

\* Lines 149-166: one pass of the loop, for the actor name argv[idx].
Resolve ==
    /\ pc = "loop"
    /\ idx <= Len(argv)
    /\ \E r \in {map_actor(argv[idx])} : LoopBody(argv[idx], r)
    /\ UNCHANGED <<ACTOR_MAPPINGS, ALIASES, argv>>

\* main printing the JSON output whenever a name was given.
Finish_json_always ==
    /\ pc = "loop"
    /\ idx > Len(argv)
    /\ stdout' = IF Len(argv) + 1 >= 2
                 THEN stdout \o <<[line |-> "json_header"],
                                  [line |-> "json", value |-> results]>>
                 ELSE stdout
    /\ status' = 0
    /\ pc' = "done"
    /\ UNCHANGED <<ACTOR_MAPPINGS, ALIASES, argv, idx, result, results>>

\* Lines 168-171: the loop is over; the JSON output is printed when
\* len(sys.argv) > 2, and main returns.
Finish ==
    /\ pc = "loop"
    /\ idx > Len(argv)
    /\ stdout' = IF Len(argv) + 1 > 2
                 THEN stdout \o <<[line |-> "json_header"],
                                  [line |-> "json", value |-> results]>>
                 ELSE stdout
    /\ status' = 0
    /\ pc' = "done"
    /\ UNCHANGED <<ACTOR_MAPPINGS, ALIASES, argv, idx, result, results>>

(***************************************************************************)
(* The command lines explored.                                             *)
(***************************************************************************)
MaxPad == 1

MaxArgs == 3

lower(s) == [k \in 1..Len(s) |-> IF s[k] \in 65..90 THEN s[k] + 32 ELSE s[k]]

\* Every second letter in lower case.
MixedCase(s) == [k \in 1..Len(s) |-> IF k % 2 = 1 THEN lower(s)[k] ELSE s[k]]

CaseForms(s) == {s, lower(s), MixedCase(s)}

\* s with l spaces in front and r tab characters behind.
Pad(s, l, r) == [k \in 1..l |-> 32] \o s \o [k \in 1..r |-> 9]

Padded(S) == {Pad(s, l, r) : s \in S, l \in 0..MaxPad, r \in 0..MaxPad}

TableKeys == {ActorMappingsLiteral[k][1] : k \in 1..Len(ActorMappingsLiteral)}

AliasKeys == {AliasesLiteral[k][1] : k \in 1..Len(AliasesLiteral)}

\* Table keys and aliases in every case form, with and without padding.
KeyQueries == Padded(UNION {CaseForms(s) : s \in TableKeys \cup AliasKeys})

\* Every prefix of every table key, the empty string among them.
PrefixQueries == UNION {{SubSeq(s, 1, m) : m \in 0..Len(s)} : s \in TableKeys}

\* Every table key with its last two characters mistyped as "XY".
TypoQueries == {SubSeq(s, 1, Len(s) - 2) \o <<88, 89>> : s \in TableKeys}

\* The empty string and whitespace-only strings.
BlankQueries == Padded({<<>>})

LazarusGrp == <<76, 97, 122, 97, 114, 117, 115, 32, 71, 114, 112>>   \* "Lazarus Grp"

TotallyUnknown ==   \* "Totally Unknown Actor Name"
    <<84, 111, 116, 97, 108, 108, 121, 32, 85, 110, 107, 110, 111, 119, 110, 32,
      65, 99, 116, 111, 114, 32, 78, 97, 109, 101>>

Apt36 == <<65, 80, 84, 51, 54>>   \* "APT36"

SideCop == <<32, 115, 105, 100, 101, 99, 111, 112>>   \* " sidecop"

Queries ==
    KeyQueries \cup PrefixQueries \cup TypoQueries \cup BlankQueries
               \cup {LazarusGrp, TotallyUnknown}

\* The names that command lines of several arguments are built from.
CliNames == {Apt36, SideCop, LazarusGrp, TotallyUnknown}

CommandLines ==
    {<<>>} \cup {<<q>> : q \in Queries}
           \cup UNION {[1..m -> CliNames] : m \in 2..MaxArgs}

Init ==
    /\ ACTOR_MAPPINGS = ActorMappingsLiteral
    /\ ALIASES = AliasesLiteral
    /\ argv \in CommandLines
    /\ pc = "start"
    /\ idx = 1
    /\ result = None
    /\ results = <<>>
    /\ stdout = <<>>
    /\ status = None

Next == Usage \/ Begin \/ Resolve \/ Finish

Spec == Init /\ [][Next]_vars

(***************************************************************************)
(* The same program over alias tables: ALIASES as authored, and ALIASES    *)
(* with one more entry whose target is itself an alias,                    *)
(* "SIDE-COPY": "SIDE COPY" (and "SIDE COPY": "SIDECOPY" as authored).     *)
(***************************************************************************)
SideDashCopy == <<83, 73, 68, 69, 45, 67, 79, 80, 89>>   \* "SIDE-COPY"

SideSpaceCopy == <<83, 73, 68, 69, 32, 67, 79, 80, 89>>   \* "SIDE COPY"

AliasesChained == Append(AliasesLiteral, <<SideDashCopy, SideSpaceCopy>>)

\* One name per run: every alias and every alias target, in every case form,
\* with and without padding.
AliasCommandLines ==
    {<<>>} \cup
    {<<q>> : q \in Padded(UNION {CaseForms(AliasesChained[k][1]) \cup
                                  CaseForms(AliasesChained[k][2]) :
                                      k \in 1..Len(AliasesChained)})}

InitAliasTables ==
    /\ ACTOR_MAPPINGS = ActorMappingsLiteral
    /\ ALIASES \in {AliasesLiteral, AliasesChained}
    /\ argv \in AliasCommandLines
    /\ pc = "start"
    /\ idx = 1
    /\ result = None
    /\ results = <<>>
    /\ stdout = <<>>
    /\ status = None

SpecAliasTables == InitAliasTables /\ [][Next]_vars

(***************************************************************************)
(* Properties.  Once idx > 1 a call of map_actor has returned: Query is    *)
(* the actor name it was given and result is what it returned.             *)
(***************************************************************************)
Called == idx > 1

Query == argv[idx - 1]

IsExact(r) == DOMAIN r = {"str"}

IsSuggestions(r) ==
    /\ {"query", "exact_match", "suggestions"} \subseteq DOMAIN r
    /\ r.exact_match = None
    /\ r.suggestions # <<>>

IsNoMatch(r) ==
    /\ {"query", "exact_match", "suggestions"} \subseteq DOMAIN r
    /\ r.exact_match = None
    /\ r.suggestions = <<>>

\* c is d, or d with its case changed.
SameLetter(c, d) ==
    \/ c = d
    \/ d \in 65..90 /\ c = d + 32
    \/ d \in 97..122 /\ c = d - 32

\* q is key with letters of either case, between two runs of whitespace.
IsCaseSpaceVariant(q, key) ==
    \E l \in 0..(Len(q) - Len(key)) :
        \A k \in 1..Len(q) :
            IF k <= l \/ k > l + Len(key)
            THEN IsSpace(q[k])
            ELSE SameLetter(q[k], key[k - l])

\* C1: a query that is a key of ACTOR_MAPPINGS up to the case of its letters and
\* surrounding whitespace resolves to exactly the id of that key, as a str.
C1_KeyVariantResolvesExactly ==
    Called =>
        \A k \in 1..Len(ActorMappingsLiteral) :
            IsCaseSpaceVariant(Query, ActorMappingsLiteral[k][1])
                => result = [str |-> ActorMappingsLiteral[k][2]]

\* A padded query with lower-case letters has resolved to its key's id.
C1_Witness ==
    /\ Called
    /\ Len(Query) > 2
    /\ IsSpace(Query[1])
    /\ IsSpace(Query[Len(Query)])
    /\ \E k \in 1..Len(Query) : Query[k] \in 97..122
    /\ \E k \in 1..Len(ActorMappingsLiteral) :
          /\ IsCaseSpaceVariant(Query, ActorMappingsLiteral[k][1])
          /\ result = [str |-> ActorMappingsLiteral[k][2]]

\* C2: for every entry alias -> canonical name of ALIASES, resolving the alias
\* returns what resolving the canonical name returns, and that is the exact id
\* ACTOR_MAPPINGS[canonical name].
C2_AliasResolvesAsCanonical ==
    Called =>
        \A k \in 1..Len(AliasesLiteral) :
            Query = AliasesLiteral[k][1]
                => /\ result = map_actor(AliasesLiteral[k][2])
                   /\ DictHas(ActorMappingsLiteral, AliasesLiteral[k][2])
                   /\ result = [str |-> DictGet(ActorMappingsLiteral, AliasesLiteral[k][2])]

\* The alias "SIDECOP" has resolved to the id of "SIDECOPY".
C2_Witness ==
    /\ Called
    /\ Query = <<83, 73, 68, 69, 67, 79, 80>>
    /\ DictGet(ALIASES, Query) = <<83, 73, 68, 69, 67, 79, 80, 89>>
    /\ result = [str |-> "att&ck::G1008"]

\* C3: map_actor returns exactly one of: an exact id (a str), if and only if the
\* normalized query is a key of ACTOR_MAPPINGS; a dict with exact_match None and
\* one to three suggestions; a dict with exact_match None, no suggestions and an
\* error field.
C3_ExactlyOneOutcome ==
    Called =>
        /\ \/ IsExact(result)
           \/ IsSuggestions(result) /\ Len(result.suggestions) <= 3
           \/ IsNoMatch(result) /\ "error" \in DOMAIN result
        /\ IsExact(result) <=> DictHas(ACTOR_MAPPINGS, normalize_name(Query))
        /\ IsExact(result)
              => result.str = DictGet(ACTOR_MAPPINGS, normalize_name(Query))
        /\ ~IsExact(result) => ~(IsSuggestions(result) /\ IsNoMatch(result))

\* A query that is no key after normalization has got three suggestions.
C3_Witness ==
    /\ Called
    /\ ~DictHas(ACTOR_MAPPINGS, normalize_name(Query))
    /\ IsSuggestions(result)
    /\ Len(result.suggestions) = 3

(***************************************************************************)
(* Scores.  Score(k) is the similarity the matcher computes between the    *)
(* k-th key of ACTOR_MAPPINGS and the normalized query of the last call.   *)
(***************************************************************************)
SixTenths == <<3, 5>>

Score(k) == ratio(ACTOR_MAPPINGS[k][1], normalize_name(Query))

\* <<Score(1), ..., Score(n)>>, computed once.
RECURSIVE ScoresUpTo(_)
ScoresUpTo(n) == IF n = 0 THEN <<>> ELSE Append(ScoresUpTo(n - 1), Score(n))

Scores == ScoresUpTo(Len(ACTOR_MAPPINGS))

KeyPos(name) == CHOOSE k \in 1..Len(ACTOR_MAPPINGS) : ACTOR_MAPPINGS[k][1] = name

Suggested == [k \in 1..Len(result.suggestions) |-> result.suggestions[k].name]

SuggestedPos == {KeyPos(Suggested[k]) : k \in 1..Len(Suggested)}

LeftOutPos == (1..Len(ACTOR_MAPPINGS)) \ SuggestedPos

\* C4: without an exact match the suggestions are at most 3, in order of
\* non-increasing score, and no key left out scores strictly higher than a
\* suggested one.
C4_TopThreeByScore ==
    (Called /\ ~IsExact(result)) =>
        LET score == Scores
        IN  /\ Len(Suggested) <= 3
            /\ \A k \in 1..(Len(Suggested) - 1) :
                  ~RatioLess(score[KeyPos(Suggested[k])], score[KeyPos(Suggested[k + 1])])
            /\ \A p \in SuggestedPos : \A m \in LeftOutPos :
                  ~RatioLess(score[p], score[m])

\* Three suggestions of which the last scores less than the first, and a key
\* that reaches the cutoff was left out.
C4_Witness ==
    /\ Called
    /\ IsSuggestions(result)
    /\ Len(Suggested) = 3
    /\ RatioLess(Score(KeyPos(Suggested[3])), Score(KeyPos(Suggested[1])))
    /\ \E m \in LeftOutPos : ~RatioLess(Score(m), SixTenths)

\* C5: a query whose normalized form scores below 0.6 against every key gets the
\* no-match result: exact_match None and no suggestions.
C5_BelowCutoffIsNoMatch ==
    (Called /\ \A k \in 1..Len(ACTOR_MAPPINGS) : RatioLess(Score(k), SixTenths))
        => IsNoMatch(result)

\* A query whose best key scores at least 0.5, yet below 0.6, got the no-match
\* result.
C5_Witness ==
    /\ Called
    /\ \A k \in 1..Len(ACTOR_MAPPINGS) : RatioLess(Score(k), SixTenths)
    /\ \E k \in 1..Len(ACTOR_MAPPINGS) : ~RatioLess(Score(k), <<1, 2>>)
    /\ IsNoMatch(result)

\* C6 as stated: keys of equal score are suggested, and selected into the top 3,
\* in the insertion order of ACTOR_MAPPINGS.
C6_TiesInInsertionOrder ==
    (Called /\ ~IsExact(result)) =>
        LET score == Scores
        IN  /\ \A k, m \in 1..Len(Suggested) :
                  (k < m /\ RatioEq(score[KeyPos(Suggested[k])],
                                    score[KeyPos(Suggested[m])]))
                      => KeyPos(Suggested[k]) < KeyPos(Suggested[m])
            /\ \A p \in SuggestedPos : \A m \in LeftOutPos :
                  RatioEq(score[p], score[m]) => p < m

\* C6 as amended: keys of equal score are suggested, and selected into the top 3,
\* in descending order of the key's text (code point order).
C6_TiesInDescendingKeyOrder ==
    (Called /\ ~IsExact(result)) =>
        LET score == Scores
        IN  /\ \A k, m \in 1..Len(Suggested) :
                  (k < m /\ RatioEq(score[KeyPos(Suggested[k])],
                                    score[KeyPos(Suggested[m])]))
                      => StrLess(Suggested[m], Suggested[k])
            /\ \A p \in SuggestedPos : \A m \in LeftOutPos :
                  RatioEq(score[p], score[m])
                      => StrLess(ACTOR_MAPPINGS[m][1], ACTOR_MAPPINGS[p][1])

\* Two suggestions of equal score stand in the reverse of their insertion order.
C6_Witness ==
    /\ Called
    /\ IsSuggestions(result)
    /\ \E k \in 1..(Len(Suggested) - 1) :
          /\ RatioEq(Score(KeyPos(Suggested[k])), Score(KeyPos(Suggested[k + 1])))
          /\ KeyPos(Suggested[k]) > KeyPos(Suggested[k + 1])
          /\ StrLess(Suggested[k + 1], Suggested[k])

\* C7: map_actor raises for no string (the only abnormal exit of main is the
\* usage exit, taken when no name was given), and the empty string and every
\* whitespace-only string get the no-match result.
C7_NeverRaisesBlankIsNoMatch ==
    /\ pc = "exit" => argv = <<>>
    /\ (pc = "loop" /\ idx <= Len(argv)) => "raise" \notin DOMAIN map_actor(argv[idx])
    /\ (Called /\ \A k \in 1..Len(Query) : IsSpace(Query[k]))
          => IsNoMatch(result) /\ "error" \in DOMAIN result

\* A whitespace-only query of two characters got the no-match result.
C7_Witness ==
    /\ Called
    /\ Len(Query) = 2
    /\ \A k \in 1..Len(Query) : IsSpace(Query[k])
    /\ IsNoMatch(result)

\* What main records for actor_name when map_actor returned r (lines 155, 166).
Recorded(actor_name, r) ==
    IF IsExact(r) THEN [actor |-> actor_name, id |-> r.str] ELSE r

\* C8: the two tables never change, equal queries of one run get equal results,
\* and every recorded result is what map_actor returns for that query now,
\* whatever calls came before it.
C8_PureAndOrderIndependent ==
    /\ ACTOR_MAPPINGS = ActorMappingsLiteral
    /\ ALIASES = AliasesLiteral
    /\ \A i, j \in 1..Len(results) : argv[i] = argv[j] => results[i] = results[j]
    /\ \A i \in 1..Len(results) : results[i] = Recorded(argv[i], map_actor(argv[i]))

\* One query resolved twice in a run, after a different call and after itself,
\* with suggestions both times.
C8_Witness ==
    /\ pc = "done"
    /\ Len(argv) = 3
    /\ argv[1] # argv[2]
    /\ argv[2] = argv[3]
    /\ IsSuggestions(results[2])
    /\ results[2] = results[3]

\* The actor names of the report lines that open each pass of the loop.
ReportedNames ==
    LET opens(l) == l.line \in {"match", "header"}
        lines    == SelectSeq(stdout, opens)
    IN  [k \in 1..Len(lines) |-> lines[k].actor]

JsonLines ==
    LET json(l) == l.line = "json"
    IN  SelectSeq(stdout, json)

\* C9: given names, main resolves every argument once and in order and records
\* one result per argument; only the usage branch exits early, so a name without
\* exact match stops nothing; the JSON array of the results is printed if and only
\* if more than one name was given.
C9_MainResolvesEveryArgument ==
    /\ pc = "exit" => argv = <<>>
    /\ pc \in {"loop", "done"} =>
          /\ idx <= Len(argv) + 1
          /\ Len(results) = idx - 1
          /\ ReportedNames = SubSeq(argv, 1, idx - 1)
          /\ \A k \in 1..Len(results) :
                results[k] = Recorded(argv[k], map_actor(argv[k]))
    /\ pc = "loop" => JsonLines = <<>>
    /\ pc = "done" =>
          /\ Len(results) = Len(argv)
          /\ status = 0
          /\ JsonLines = IF Len(argv) > 1
                         THEN <<[line |-> "json", value |-> results]>>
                         ELSE <<>>

\* A run of two names, the first without any match and the second an exact
\* match, has ended with both recorded and the JSON array printed.
C9_Witness ==
    /\ pc = "done"
    /\ Len(argv) = 2
    /\ IsNoMatch(results[1])
    /\ results[2] = [actor |-> argv[2], id |-> "att&ck::G0134"]
    /\ JsonLines = <<[line |-> "json", value |-> results]>>

\* C10 as stated: every suggested key scores strictly above 0.6.
C10_SuggestedExceedCutoff ==
    (Called /\ ~IsExact(result)) =>
        \A p \in SuggestedPos : RatioLess(SixTenths, Score(p))

\* C10 as amended: every suggested key scores at least 0.6, and a key that scores
\* exactly 0.6 is suggested unless three keys rank before it.
C10_SuggestedReachCutoff ==
    (Called /\ ~IsExact(result)) =>
        LET score == Scores
        IN  /\ \A p \in SuggestedPos : ~RatioLess(score[p], SixTenths)
            /\ \A m \in LeftOutPos :
                  RatioEq(score[m], SixTenths) => Len(Suggested) = 3

\* A suggested key scores exactly 0.6: three of five characters match.
C10_Witness ==
    /\ Called
    /\ IsSuggestions(result)
    /\ Len(normalize_name(Query)) = 5
    /\ \E p \in SuggestedPos :
          /\ Len(ACTOR_MAPPINGS[p][1]) = 5
          /\ RatioEq(Score(p), SixTenths)

\* C11: the alias lookup is made on the upper-cased, trimmed query, so an alias
\* is matched whatever its case and surrounding whitespace, and it is made once:
\* the query is looked up in ACTOR_MAPPINGS under the alias's target as it stands.
\* When the target is itself an alias the query gets no exact match, and so not
\* the id of the key at the end of the chain.
C11_AliasAppliedOnce ==
    Called =>
        \A k \in 1..Len(ALIASES) :
            IsCaseSpaceVariant(Query, ALIASES[k][1]) =>
                IF DictHas(ACTOR_MAPPINGS, ALIASES[k][2])
                THEN result = [str |-> DictGet(ACTOR_MAPPINGS, ALIASES[k][2])]
                ELSE /\ ~IsExact(result)
                     /\ result.query = Query

\* A padded lower-case spelling of an alias whose target is another alias, which
\* points at a key, has got no exact match.
C11_Witness ==
    /\ Called
    /\ IsSpace(Query[1])
    /\ \E c \in 1..Len(Query) : Query[c] \in 97..122
    /\ \E k \in 1..Len(ALIASES) :
          /\ IsCaseSpaceVariant(Query, ALIASES[k][1])
          /\ DictHas(ALIASES, ALIASES[k][2])
          /\ DictHas(ACTOR_MAPPINGS, DictGet(ALIASES, ALIASES[k][2]))
          /\ ~IsExact(result)

\* C12: in every result that is no exact match, each suggestion names a key of
\* ACTOR_MAPPINGS other than the normalized query and carries that key's id, the
\* suggested names are pairwise distinct, the query field is the raw input, and
\* the error field is there if and only if there are no suggestions.
C12_NonExactResultShape ==
    (Called /\ ~IsExact(result)) =>
        /\ {"query", "exact_match", "suggestions"} \subseteq DOMAIN result
        /\ DOMAIN result \subseteq {"query", "exact_match", "suggestions", "error"}
        /\ result.query = Query
        /\ \A k \in 1..Len(result.suggestions) :
              /\ DictHas(ACTOR_MAPPINGS, result.suggestions[k].name)
              /\ result.suggestions[k].name # normalize_name(Query)
              /\ result.suggestions[k].id
                    = DictGet(ACTOR_MAPPINGS, result.suggestions[k].name)
        /\ \A k, m \in 1..Len(result.suggestions) :
              k # m => result.suggestions[k].name # result.suggestions[m].name
        /\ "error" \in DOMAIN result <=> result.suggestions = <<>>

\* A query that normalization changes has got several suggestions and no error
\* field.
C12_Witness ==
    /\ Called
    /\ IsSuggestions(result)
    /\ Len(result.suggestions) >= 2
    /\ Query # normalize_name(Query)
    /\ result.query = Query
    /\ "error" \notin DOMAIN result

=============================================================================
